---- MODULE Spec2Model ----
(***************************************************************************)
(* Model of vite-plugin-build-monitoring (src/src/index.ts, the version    *)
(* with the rxjs subject, lines 204-511).                                  *)
(*                                                                         *)
(* Sizes in MB are numbers with two decimals (the results of toMB); they   *)
(* are represented as integers counting hundredths of a MB, so 100 MB is   *)
(* MB(100) = 10000.  Times are milliseconds.  A JavaScript value that may  *)
(* be undefined is a sequence: << >> is undefined, <<v>> is the value v.   *)
(***************************************************************************)
EXTENDS Integers, Sequences, FiniteSets, TLC

VARIABLES
  now,         \* the clock of the event loop, ms
  env,         \* process.env.MONITORING_LOG_ENABLED is set
  exited,      \* the codes process.exit was invoked with (non-empty: process gone)
  started,     \* started[m]: monitoring() has been called for session m
  opts,        \* opts[m]: the destructured options of session m
  infos,       \* infos[m]: the object checkMemoryUsage returns
  timers,      \* timers[m]: the runtime's setInterval timer behind infos[m].interval
  db,          \* the closure state of the module-level debounced warningMemoryLimit
  subjectLog,  \* what subject.next published, in order
  consoleLog,  \* what console.log / console.error wrote, in order
  fc,          \* fc[m]: the state of the finalCallback invocations of session m
  deps,        \* deps[m]: the state of the checkNbOfNodeModulesDeps call of session m
  ticks,       \* ticks[m]: number of interval callbacks that ran (history)
  lastTick,    \* the last interval callback that ran (history)
  hist,        \* hist[m]: facts about the samples seen so far (history)
  directCall   \* the direct call of an exported function and what it returned

vars == <<now, env, exited, started, opts, infos, timers, db, subjectLog,
          consoleLog, fc, deps, ticks, lastTick, hist, directCall>>

(***************************************************************************)
(* Bounds of the model.                                                    *)
(***************************************************************************)
MaxTicks == 4
MaxCompletions == 2
\* the same, per session, when two sessions run in the process
MaxTicksTwo == 2
MaxCompletionsTwo == 1

AllSessions == {1, 2}
OneSession == {1}

(***************************************************************************)
(* Program constants.                                                      *)
(***************************************************************************)
MB(n) == n * 100

DEBOUNCE_WAIT == 2500
DEFAULT_MEMORY_WARNING_MAX_SIZE == MB(2950)
DEFAULT_MEMORY_ERROR_MAX_SIZE == MB(4500)
DEFAULT_INTERVAL_CHECK_MEMORY == 350

Some(v) == <<v>>
Undefined == << >>
IsDefined(o) == o # << >>
Val(o) == o[1]
OrDefault(o, d) == IF IsDefined(o) THEN Val(o) ELSE d

\* JavaScript truthiness of an optional number: undefined and 0 are falsy.
Truthy(o) == IsDefined(o) /\ Val(o) # 0

MinOf(S) == CHOOSE x \in S : \A y \in S : x <= y

(***************************************************************************)
(* toMB: Number((bytes / 1000 / 1000).toFixed(2)), in hundredths of a MB.  *)
(* toFixed rounds the exact value of the double bytes/1000/1000 half up;   *)
(* the double differs from the quotient only by a rounding error, which    *)
(* decides the result when bytes is exactly halfway (bytes % 10000 =       *)
(* 5000).  TieBelow holds the halfway byte counts used in this model whose *)
(* double lies below the quotient (IEEE-754 binary64), so that toFixed     *)
(* rounds them down.                                                       *)
(***************************************************************************)
TieBelow == {15000, 45000, 1005000, 100005000}

toMB(bytes) ==
  LET q == bytes \div 10000
      r == bytes % 10000
  IN  IF r > 5000 \/ (r = 5000 /\ bytes \notin TieBelow) THEN q + 1 ELSE q

(***************************************************************************)
(* Inputs.                                                                 *)
(***************************************************************************)
\* process.memoryUsage.rss(), bytes
RssValues == {4000, 150000000, 1000000000, 1500000000}
\* fastFolderSize results, bytes
BundleBytes == {10000000, 12000000}
NodeModulesBytes == {900000000, 1000000000}
\* package.json: the key sets of dependencies and devDependencies
Manifests ==
  { [dependencies |-> Some(1..6), devDependencies |-> Some(7..11)],
    [dependencies |-> Some(1..4), devDependencies |-> Undefined] }

\* The options objects passed to monitoring().
OptionSets ==
  { [MEMORY_WARNING_MAX_SIZE |-> Some(MB(100)), MEMORY_ERROR_MAX_SIZE |-> Some(MB(1000)),
     BUNDLE_MAX_SIZE |-> Some(MB(10)), NODE_MODULES_MAX_SIZE |-> Some(MB(900)),
     NB_NODE_MODULES_MAX |-> Undefined, INTERVAL_CHECK_MEMORY |-> Some(1250),
     LOG |-> Undefined],
    [MEMORY_WARNING_MAX_SIZE |-> Some(MB(1000)), MEMORY_ERROR_MAX_SIZE |-> Some(MB(150)),
     BUNDLE_MAX_SIZE |-> Undefined, NODE_MODULES_MAX_SIZE |-> Undefined,
     NB_NODE_MODULES_MAX |-> Some(10), INTERVAL_CHECK_MEMORY |-> Some(3000),
     LOG |-> Some(FALSE)],
    [MEMORY_WARNING_MAX_SIZE |-> Some(MB(150)), MEMORY_ERROR_MAX_SIZE |-> Some(MB(150)),
     BUNDLE_MAX_SIZE |-> Some(0), NODE_MODULES_MAX_SIZE |-> Some(0),
     NB_NODE_MODULES_MAX |-> Some(0), INTERVAL_CHECK_MEMORY |-> Undefined,
     LOG |-> Some(TRUE)] }

\* The destructuring with defaults at the head of monitoring().
Destructure(o) ==
  [MEMORY_WARNING_MAX_SIZE |->
     OrDefault(o.MEMORY_WARNING_MAX_SIZE, DEFAULT_MEMORY_WARNING_MAX_SIZE),
   MEMORY_ERROR_MAX_SIZE |->
     OrDefault(o.MEMORY_ERROR_MAX_SIZE, DEFAULT_MEMORY_ERROR_MAX_SIZE),
   BUNDLE_MAX_SIZE |-> o.BUNDLE_MAX_SIZE,
   NODE_MODULES_MAX_SIZE |-> o.NODE_MODULES_MAX_SIZE,
   NB_NODE_MODULES_MAX |-> o.NB_NODE_MODULES_MAX,
   INTERVAL_CHECK_MEMORY |->
     OrDefault(o.INTERVAL_CHECK_MEMORY, DEFAULT_INTERVAL_CHECK_MEMORY),
   LOG |-> OrDefault(o.LOG, TRUE)]

NoOptions == Destructure(
  [MEMORY_WARNING_MAX_SIZE |-> Undefined, MEMORY_ERROR_MAX_SIZE |-> Undefined,
   BUNDLE_MAX_SIZE |-> Undefined, NODE_MODULES_MAX_SIZE |-> Undefined,
   NB_NODE_MODULES_MAX |-> Undefined, INTERVAL_CHECK_MEMORY |-> Undefined,
   LOG |-> Undefined])

(***************************************************************************)
(* Messages and the two output channels.                                   *)
(***************************************************************************)
\* A text built by one of the *_TXT templates: the template and the values
\* it interpolates (a, b) and the date it prints (at).
Txt(template, a, b, at) == [txt |-> template, a |-> a, b |-> b, at |-> at]

\* subject.next({[type]: text})
Publish(log, type, text) == Append(log, [type |-> type, text |-> text])

\* colorizedLog(colorFn, method)(text): writes only when the process-wide
\* flag is set.
colorizedLog(log, flag, colorFn, method, text) ==
  IF flag
  THEN Append(log, [method |-> method, color |-> colorFn, text |-> text])
  ELSE log

errorLog(log, flag, text) == colorizedLog(log, flag, "red", "error", text)
warningLog(log, flag, text) == colorizedLog(log, flag, "bgYellow", "log", text)
infoLog(log, flag, text) == colorizedLog(log, flag, "green", "log", text)

\* The outputs of the program: both logs.
Out(s, c) == [subject |-> s, console |-> c]
EmitError(out, flag, text) ==
  Out(Publish(out.subject, "error", text), errorLog(out.console, flag, text))
EmitWarning(out, flag, text) ==
  Out(Publish(out.subject, "warning", text), warningLog(out.console, flag, text))
EmitInfoWhenLogging(out, flag, text) ==
  IF flag
  THEN Out(Publish(out.subject, "info", text), infoLog(out.console, flag, text))
  ELSE out
EmitInfo(out, flag, text) ==
  Out(Publish(out.subject, "info", text), infoLog(out.console, flag, text))

(***************************************************************************)
(* The threshold checks run at completion and at start.                    *)
(***************************************************************************)
\* `LIMIT && measured > LIMIT`: the condition of the two size checks.
LimitExceededUnsetAsZero(limit, measured) == measured > OrDefault(limit, 0)
LimitExceeded(limit, measured) == Truthy(limit) /\ measured > Val(limit)

checkNodeModulesSize(out, flag, NODE_MODULES_MAX_SIZE, nodeModuleMB) ==
  IF LimitExceeded(NODE_MODULES_MAX_SIZE, nodeModuleMB)
  THEN EmitError(out, flag, Txt("ERROR_NODE_MODULE_SIZE_TXT",
                                Some(nodeModuleMB), NODE_MODULES_MAX_SIZE, Undefined))
  ELSE EmitInfo(out, flag, Txt("INFO_NODE_MODULE_SIZE_TXT",
                               Some(nodeModuleMB), NODE_MODULES_MAX_SIZE, Undefined))

checkBundleSizes(out, flag, BUNDLE_MAX_SIZE, bundleMB) ==
  IF LimitExceeded(BUNDLE_MAX_SIZE, bundleMB)
  THEN EmitError(out, flag, Txt("ERROR_BUNDLE_SIZE_TXT",
                                Some(bundleMB), BUNDLE_MAX_SIZE, Undefined))
  ELSE EmitInfo(out, flag, Txt("INFO_BUNDLE_SIZE_TXT",
                               Some(bundleMB), BUNDLE_MAX_SIZE, Undefined))

\* Object.keys(mapping ?? {}).length
NbKeys(mapping) == IF IsDefined(mapping) THEN Cardinality(Val(mapping)) ELSE 0

\* The part of checkNbOfNodeModulesDeps after the manifest is imported.
checkNbAfterImport(out, flag, NB_NODE_MODULES_MAX, packageJson) ==
  LET nbOfNodeModulesDeps ==
        NbKeys(packageJson.dependencies) + NbKeys(packageJson.devDependencies)
  IN  IF nbOfNodeModulesDeps > Val(NB_NODE_MODULES_MAX)
      THEN EmitError(out, flag, Txt("ERROR_NODE_MODULE_NB_TXT",
                                    Some(nbOfNodeModulesDeps), NB_NODE_MODULES_MAX, Undefined))
      ELSE EmitInfo(out, flag, Txt("INFO_NODE_MODULE_NB_TXT",
                                   Some(nbOfNodeModulesDeps), NB_NODE_MODULES_MAX, Undefined))

(***************************************************************************)
(* lodash debounce(func, 2500, {leading: true, trailing: true}), the       *)
(* wrapper of warningMemoryLimit.  Its closure state is the record db; an  *)
(* operation returns the new closure state and, in call, the arguments     *)
(* func is invoked with (undefined: func is not invoked).  maxWait is not  *)
(* given, so the maxing branches are absent.                               *)
(***************************************************************************)
DbInit == [lastArgs |-> Undefined, lastCallTime |-> Undefined,
           lastInvokeTime |-> 0, timerId |-> Undefined]

DbResult(d, call) == [db |-> d, call |-> call]

shouldInvoke(d, time) ==
  \/ ~IsDefined(d.lastCallTime)
  \/ time - Val(d.lastCallTime) >= DEBOUNCE_WAIT
  \/ time - Val(d.lastCallTime) < 0

remainingWait(d, time) == DEBOUNCE_WAIT - (time - Val(d.lastCallTime))

invokeFuncKeepsArgs(d, time) ==
  DbResult([d EXCEPT !.lastInvokeTime = time], d.lastArgs)
invokeFunc(d, time) ==
  DbResult([d EXCEPT !.lastArgs = Undefined, !.lastInvokeTime = time], d.lastArgs)

\* leading: true
leadingEdgeNoLeading(d, time) ==
  DbResult([d EXCEPT !.lastInvokeTime = time,
                     !.timerId = Some(time + DEBOUNCE_WAIT)], Undefined)
leadingEdge(d, time) ==
  invokeFunc([d EXCEPT !.lastInvokeTime = time,
                       !.timerId = Some(time + DEBOUNCE_WAIT)], time)

\* trailing: true
trailingEdge(d, time) ==
  LET d1 == [d EXCEPT !.timerId = Undefined]
  IN  IF IsDefined(d1.lastArgs)
      THEN invokeFunc(d1, time)
      ELSE DbResult([d1 EXCEPT !.lastArgs = Undefined], Undefined)

\* a timer that fires the trailing call without looking at the last call
timerExpiredNoRecheck(d, time) == trailingEdge(d, time)
timerExpired(d, time) ==
  IF shouldInvoke(d, time)
  THEN trailingEdge(d, time)
  ELSE DbResult([d EXCEPT !.timerId = Some(time + remainingWait(d, time))], Undefined)

\* a wrapper that keeps the arguments of the first call it is holding
debouncedKeepsFirst(d, time, args) ==
  LET isInvoking == shouldInvoke(d, time)
      d1 == [d EXCEPT !.lastArgs = IF IsDefined(d.lastArgs) THEN d.lastArgs
                                   ELSE Some(args),
                      !.lastCallTime = Some(time)]
  IN  IF isInvoking /\ ~IsDefined(d1.timerId)
      THEN leadingEdge(d1, time)
      ELSE IF ~IsDefined(d1.timerId)
           THEN DbResult([d1 EXCEPT !.timerId = Some(time + DEBOUNCE_WAIT)], Undefined)
           ELSE DbResult(d1, Undefined)
debounced(d, time, args) ==
  LET isInvoking == shouldInvoke(d, time)
      d1 == [d EXCEPT !.lastArgs = Some(args), !.lastCallTime = Some(time)]
  IN  IF isInvoking /\ ~IsDefined(d1.timerId)
      THEN leadingEdge(d1, time)
      ELSE IF ~IsDefined(d1.timerId)
           THEN DbResult([d1 EXCEPT !.timerId = Some(time + DEBOUNCE_WAIT)], Undefined)
           ELSE DbResult(d1, Undefined)

\* The function debounce wraps: publishes and logs the warning text.
warningMemoryLimitFn(out, flag, call, time) ==
  IF IsDefined(call)
  THEN EmitWarning(out, flag, Txt("WARNING_MEMORY_CONSUMPTION_TXT",
                                  Some(Val(call).memUsage),
                                  Some(Val(call).MEMORY_WARNING_MAX_SIZE), Some(time)))
  ELSE out

(***************************************************************************)
(* The comparisons of the interval callback of checkMemoryUsage.           *)
(***************************************************************************)
ExceedsFatalOrEqual(memUsage, MEMORY_ERROR_MAX_SIZE) == memUsage >= MEMORY_ERROR_MAX_SIZE
ExceedsFatalAboveDefault(memUsage, MEMORY_ERROR_MAX_SIZE) ==
  memUsage > DEFAULT_MEMORY_ERROR_MAX_SIZE
ExceedsFatal(memUsage, MEMORY_ERROR_MAX_SIZE) == memUsage > MEMORY_ERROR_MAX_SIZE
ExceedsWarningOrEqual(memUsage, MEMORY_WARNING_MAX_SIZE) ==
  memUsage >= MEMORY_WARNING_MAX_SIZE
ExceedsWarning(memUsage, MEMORY_WARNING_MAX_SIZE) == memUsage > MEMORY_WARNING_MAX_SIZE
IsNewMaximumAnyChange(memUsage, tmpMaxMemoryConsumption) ==
  memUsage # tmpMaxMemoryConsumption
IsNewMaximumOrEqual(memUsage, tmpMaxMemoryConsumption) ==
  memUsage >= tmpMaxMemoryConsumption
IsNewMaximum(memUsage, tmpMaxMemoryConsumption) == memUsage > tmpMaxMemoryConsumption

\* process.exit(1) in the fatal branch
ExitCodeSuccess == 1 - 1
FatalExitCode == 1
\* process.exit ends the process: the statements after it do not run (a
\* test double that returns would let the callback go on).
processExitMocked == TRUE
processExitReturns == FALSE

(***************************************************************************)
(* The state machine.                                                      *)
(***************************************************************************)
Alive == exited = << >>

\* A size probe: not issued, pending, resolved with bytes, or rejected.
Probe(st, bytes) == [st |-> st, bytes |-> bytes]
NoProbes == [bundle |-> Probe("none", 0), nm |-> Probe("none", 0)]

\* A direct call of an exported function by the host: the function, its
\* arguments and what it returned; NoCall when there was none.
DirectCall(fn, measured, limit, result) ==
  [fn |-> fn, measured |-> measured, limit |-> limit, result |-> result]
NoCall == DirectCall("none", Undefined, Undefined, Undefined)

HistInit == [first |-> Undefined, firstAt |-> Undefined, allBand |-> TRUE,
             noFatal |-> TRUE, seenMax |-> 0, seenMaxAt |-> 0,
             reported |-> Undefined, over |-> << >>]

\* The module has been loaded: the subject exists, warningMemoryLimit has
\* been created by debounce, monitoring() has not been called yet.
Init ==
  /\ now = 0
  /\ env = FALSE
  /\ exited = << >>
  /\ started = [m \in AllSessions |-> FALSE]
  /\ opts = [m \in AllSessions |-> NoOptions]
  /\ infos = [m \in AllSessions |->
                [tmpMaxMemoryConsumption |-> 0, dateMaxMemoryConsumption |-> 0]]
  /\ timers = [m \in AllSessions |-> [active |-> FALSE, due |-> 0]]
  /\ db = DbInit
  /\ subjectLog = << >>
  /\ consoleLog = << >>
  /\ fc = [m \in AllSessions |-> [pc |-> "idle", probes |-> NoProbes, count |-> 0]]
  /\ deps = [m \in AllSessions |-> "idle"]
  /\ ticks = [m \in AllSessions |-> 0]
  /\ lastTick = Undefined
  /\ hist = [m \in AllSessions |-> HistInit]
  /\ directCall = NoCall

\* The misconfiguration notice at the head of monitoring().
checkThresholdOrderReversed(out, flag, o) ==
  IF o.MEMORY_WARNING_MAX_SIZE < o.MEMORY_ERROR_MAX_SIZE
  THEN EmitError(out, flag, Txt("WARNING_ABOVE_ERROR_TXT", Undefined, Undefined, Undefined))
  ELSE out
checkThresholdOrder(out, flag, o) ==
  IF o.MEMORY_WARNING_MAX_SIZE > o.MEMORY_ERROR_MAX_SIZE
  THEN EmitError(out, flag, Txt("WARNING_ABOVE_ERROR_TXT", Undefined, Undefined, Undefined))
  ELSE out

\* checkNbOfNodeModulesDeps up to its first await.
checkNbStart(NB_NODE_MODULES_MAX) ==
  IF ~Truthy(NB_NODE_MODULES_MAX) THEN "returned" ELSE "importing"

\* monitoring(options): the plugin factory.  Sessions are created in order.
monitoring(m, options) ==
  /\ Alive
  /\ ~started[m]
  /\ \A k \in AllSessions : k < m => started[k]
  /\ LET o == Destructure(options)
         flag == env \/ o.LOG
         out == checkThresholdOrder(Out(subjectLog, consoleLog), flag, o)
     IN  /\ env' = flag
         /\ subjectLog' = out.subject
         /\ consoleLog' = out.console
         /\ opts' = [opts EXCEPT ![m] = o]
         /\ infos' = [infos EXCEPT ![m] = [tmpMaxMemoryConsumption |-> 0,
                                           dateMaxMemoryConsumption |-> now]]
         /\ timers' = [timers EXCEPT ![m] = [active |-> TRUE,
                                             due |-> now + o.INTERVAL_CHECK_MEMORY]]
         /\ deps' = [deps EXCEPT ![m] = checkNbStart(o.NB_NODE_MODULES_MAX)]
         /\ hist' = [hist EXCEPT ![m].seenMaxAt = now]
  /\ started' = [started EXCEPT ![m] = TRUE]
  /\ UNCHANGED <<directCall, now, exited, db, fc, ticks, lastTick>>

\* History of the samples of session m after a tick sampling memUsage.
HistAfterTick(h, o, memUsage, time) ==
  [h EXCEPT
     !.first = IF IsDefined(h.first) THEN h.first ELSE Some(memUsage),
     !.firstAt = IF IsDefined(h.firstAt) THEN h.firstAt ELSE Some(time),
     !.allBand = h.allBand /\ memUsage > o.MEMORY_WARNING_MAX_SIZE
                           /\ memUsage <= o.MEMORY_ERROR_MAX_SIZE,
     !.noFatal = h.noFatal /\ memUsage <= o.MEMORY_ERROR_MAX_SIZE,
     !.seenMax = IF memUsage > h.seenMax THEN memUsage ELSE h.seenMax,
     !.seenMaxAt = IF memUsage > h.seenMax THEN time ELSE h.seenMaxAt,
     !.over = IF memUsage > o.MEMORY_WARNING_MAX_SIZE
              THEN Append(h.over, [memUsage |-> memUsage, at |-> time])
              ELSE h.over]

\* The interval callback of checkMemoryUsage, sampling rss bytes.
Tick(m, rss) ==
  /\ Alive
  /\ started[m]
  /\ timers[m].active
  /\ timers[m].due = now
  /\ ticks[m] < MaxTicks
  /\ LET memUsage == toMB(rss)
         o == opts[m]
         out == Out(subjectLog, consoleLog)
     IN  /\ ticks' = [ticks EXCEPT ![m] = @ + 1]
         /\ lastTick' = Some([m |-> m, memUsage |-> memUsage, at |-> now,
                              n |-> ticks[m] + 1])
         /\ hist' = [hist EXCEPT ![m] = HistAfterTick(@, o, memUsage, now)]
         /\ LET fatal == ExceedsFatal(memUsage, o.MEMORY_ERROR_MAX_SIZE)
                out0 == IF fatal
                        THEN EmitError(out, env,
                               Txt("ERROR_MEMORY_CONSUMPTION_TXT", Some(memUsage),
                                   Some(o.MEMORY_ERROR_MAX_SIZE), Some(now)))
                        ELSE out
            IN  /\ exited' = IF fatal THEN Append(exited, FatalExitCode) ELSE exited
                /\ IF fatal /\ ~processExitReturns
                   THEN /\ subjectLog' = out0.subject
                        /\ consoleLog' = out0.console
                        /\ UNCHANGED <<db, infos, timers>>
                   ELSE LET r == IF ExceedsWarning(memUsage, o.MEMORY_WARNING_MAX_SIZE)
                                 THEN debounced(db, now,
                                        [memUsage |-> memUsage,
                                         MEMORY_WARNING_MAX_SIZE |->
                                           o.MEMORY_WARNING_MAX_SIZE])
                                 ELSE DbResult(db, Undefined)
                            out1 == warningMemoryLimitFn(out0, env, r.call, now)
                        IN  /\ db' = r.db
                            /\ subjectLog' = out1.subject
                            /\ consoleLog' = out1.console
                            /\ infos' =
                                 IF IsNewMaximum(memUsage, infos[m].tmpMaxMemoryConsumption)
                                 THEN [infos EXCEPT ![m] =
                                         [tmpMaxMemoryConsumption |-> memUsage,
                                          dateMaxMemoryConsumption |-> now]]
                                 ELSE infos
                            /\ timers' = [timers EXCEPT
                                            ![m].due = now + o.INTERVAL_CHECK_MEMORY]
  /\ UNCHANGED <<directCall, now, env, started, opts, fc, deps>>

\* The setTimeout callback of the debounce wrapper.
DebounceTimer ==
  /\ Alive
  /\ db.timerId = Some(now)
  /\ LET r == timerExpired(db, now)
         out1 == warningMemoryLimitFn(Out(subjectLog, consoleLog), env, r.call, now)
     IN  /\ db' = r.db
         /\ subjectLog' = out1.subject
         /\ consoleLog' = out1.console
  /\ UNCHANGED <<directCall, now, env, exited, started, opts, infos, timers, fc, deps,
                 ticks, lastTick, hist>>

\* The times at which a pending timer of the event loop is due.
DueTimes ==
  {timers[m].due : m \in {k \in AllSessions : timers[k].active}}
    \cup (IF IsDefined(db.timerId) THEN {Val(db.timerId)} ELSE {})

\* The event loop is idle until the next timer is due.
AdvanceTime ==
  /\ Alive
  /\ DueTimes # {}
  /\ \A t \in DueTimes : t > now
  /\ now' = MinOf(DueTimes)
  /\ UNCHANGED <<directCall, env, exited, started, opts, infos, timers, db, subjectLog,
                 consoleLog, fc, deps, ticks, lastTick, hist>>

\* clearInterval(infos.interval): the timer never fires again.
clearIntervalSkipped(timer) == timer
clearIntervalToggles(timer) == [timer EXCEPT !.active = ~timer.active]
clearInterval(timer) == [timer EXCEPT !.active = FALSE]

\* finalCallback (the writeBundle hook) up to its await: cancels the timer,
\* reports the maximum, issues the two size probes.  The bundler awaits the
\* hook, so an invocation starts only when the previous one has settled.
finalCallback(m) ==
  /\ Alive
  /\ started[m]
  /\ fc[m].pc \in {"idle", "done", "rejected"}
  /\ fc[m].count < MaxCompletions
  /\ timers' = [timers EXCEPT ![m] = clearInterval(@)]
  /\ LET info == Txt("MEMORY_CONSUMPTION_TXT",
                     Some(infos[m].tmpMaxMemoryConsumption), Undefined,
                     Some(infos[m].dateMaxMemoryConsumption))
         out1 == EmitInfo(Out(subjectLog, consoleLog), env, info)
     IN  /\ subjectLog' = out1.subject
         /\ consoleLog' = out1.console
  /\ fc' = [fc EXCEPT ![m] = [pc |-> "awaiting",
                              probes |-> [bundle |-> Probe("pending", 0),
                                          nm |-> Probe("pending", 0)],
                              count |-> @.count + 1]]
  /\ hist' = [hist EXCEPT ![m].reported =
                Some([max |-> infos[m].tmpMaxMemoryConsumption,
                      date |-> infos[m].dateMaxMemoryConsumption])]
  /\ UNCHANGED <<directCall, now, env, exited, started, opts, infos, db, deps, ticks, lastTick>>

Probes == {"bundle", "nm"}
OtherProbe(p) == IF p = "bundle" THEN "nm" ELSE "bundle"
ProbeBytes(p) == IF p = "bundle" THEN BundleBytes ELSE NodeModulesBytes

\* The continuation of finalCallback after Promise.all has resolved.
afterProbesBundleFirst(out, flag, o, bundleBytes, nodeModuleBytes) ==
  LET bundleMB == toMB(bundleBytes)
      nodeModuleMB == toMB(nodeModuleBytes)
      out1 == checkBundleSizes(out, flag, o.BUNDLE_MAX_SIZE, bundleMB)
  IN  checkNodeModulesSize(out1, flag, o.NODE_MODULES_MAX_SIZE, nodeModuleMB)
afterProbes(out, flag, o, bundleBytes, nodeModuleBytes) ==
  LET bundleMB == toMB(bundleBytes)
      nodeModuleMB == toMB(nodeModuleBytes)
      out1 == checkNodeModulesSize(out, flag, o.NODE_MODULES_MAX_SIZE, nodeModuleMB)
  IN  checkBundleSizes(out1, flag, o.BUNDLE_MAX_SIZE, bundleMB)

\* The state of Promise.all([bundle probe, node_modules probe]): it rejects
\* with the first rejection and resolves when both probes have resolved.
PromiseRace(probes) ==
  IF \E p \in Probes : probes[p].st = "rejected" THEN "rejected"
  ELSE IF \E p \in Probes : probes[p].st = "resolved" THEN "resolved"
  ELSE "pending"
PromiseAllSettled(probes) ==
  IF \A p \in Probes : probes[p].st \in {"resolved", "rejected"} THEN "resolved"
  ELSE "pending"
PromiseAll(probes) ==
  IF \E p \in Probes : probes[p].st = "rejected" THEN "rejected"
  ELSE IF \A p \in Probes : probes[p].st = "resolved" THEN "resolved"
  ELSE "pending"

\* A probe of session m settles, the probes becoming probes2: finalCallback,
\* suspended at `await Promise.all(...)`, continues with the two checks when
\* the promise resolves and rejects when it rejects.
probeSettles(m, probes2) ==
  IF fc[m].pc = "awaiting" /\ PromiseAll(probes2) = "resolved"
  THEN LET out1 == afterProbes(Out(subjectLog, consoleLog), env, opts[m],
                               probes2.bundle.bytes, probes2.nm.bytes)
       IN  /\ subjectLog' = out1.subject
           /\ consoleLog' = out1.console
           /\ fc' = [fc EXCEPT ![m].pc = "done", ![m].probes = probes2]
  ELSE /\ fc' = [fc EXCEPT ![m].pc = IF @ = "awaiting"
                                         /\ PromiseAll(probes2) = "rejected"
                                      THEN "rejected" ELSE @,
                           ![m].probes = probes2]
       /\ UNCHANGED <<subjectLog, consoleLog>>

\* fastFolderSizeAsync of probe p resolves with bytes.
ProbeResolves(m, p, bytes) ==
  /\ Alive
  /\ fc[m].pc \in {"awaiting", "rejected"}
  /\ fc[m].probes[p].st = "pending"
  /\ bytes \in ProbeBytes(p)
  /\ probeSettles(m, [fc[m].probes EXCEPT ![p] = Probe("resolved", bytes)])
  /\ UNCHANGED <<directCall, now, env, exited, started, opts, infos, timers, db,
                 deps, ticks, lastTick, hist>>

\* fastFolderSizeAsync of probe p fails.
ProbeRejects(m, p) ==
  /\ Alive
  /\ fc[m].pc \in {"awaiting", "rejected"}
  /\ fc[m].probes[p].st = "pending"
  /\ probeSettles(m, [fc[m].probes EXCEPT ![p] = Probe("rejected", 0)])
  /\ UNCHANGED <<directCall, now, env, exited, started, opts, infos, timers, db,
                 deps, ticks, lastTick, hist>>

\* The import of package.json in checkNbOfNodeModulesDeps resolves.
ManifestImported(m, packageJson) ==
  /\ Alive
  /\ deps[m] = "importing"
  /\ LET out1 == checkNbAfterImport(Out(subjectLog, consoleLog), env,
                                    opts[m].NB_NODE_MODULES_MAX, packageJson)
     IN  /\ subjectLog' = out1.subject
         /\ consoleLog' = out1.console
  /\ deps' = [deps EXCEPT ![m] = "done"]
  /\ UNCHANGED <<directCall, now, env, exited, started, opts, infos, timers, db, fc,
                 ticks, lastTick, hist>>

\* The import of package.json fails: the promise of the call rejects.
ManifestImportFails(m) ==
  /\ Alive
  /\ deps[m] = "importing"
  /\ deps' = [deps EXCEPT ![m] = "rejected"]
  /\ UNCHANGED <<directCall, now, env, exited, started, opts, infos, timers, db, subjectLog,
                 consoleLog, fc, ticks, lastTick, hist>>

SessionNext(m) ==
  \/ \E options \in OptionSets : monitoring(m, options)
  \/ \E rss \in RssValues : Tick(m, rss)
  \/ finalCallback(m)
  \/ \E p \in Probes : \E bytes \in ProbeBytes(p) : ProbeResolves(m, p, bytes)
  \/ \E p \in Probes : ProbeRejects(m, p)
  \/ \E packageJson \in Manifests : ManifestImported(m, packageJson)
  \/ ManifestImportFails(m)

\* One build session in the process.
Next ==
  \/ \E m \in OneSession : SessionNext(m)
  \/ DebounceTimer
  \/ AdvanceTime

Spec == Init /\ [][Next]_vars

(***************************************************************************)
(* Direct calls.  toMB, checkNodeModulesSize, checkBundleSizes and         *)
(* checkNbOfNodeModulesDeps are exported; a host (the unit tests do) calls *)
(* one of them on a freshly loaded module, with                            *)
(* process.env.MONITORING_LOG_ENABLED set or not by the environment.       *)
(***************************************************************************)
\* Byte counts given to toMB, the exact ties of the second decimal included.
ToMBInputs == {0, 1, 4999, 5000, 5001, 9999, 15000, 20000, 25000, 45000,
               1005000, 12345678, 100005000}

\* Measured quantities and limits given to the three checks: a number of MB
\* for the size checks, a number of dependencies for the third.
CheckValues == {0, 4, 10, 11, 12}
CheckLimits == {Undefined, Some(0), Some(4), Some(10), Some(11)}
MBLimit(limit) == IF IsDefined(limit) THEN Some(MB(Val(limit))) ELSE Undefined

\* package.json contents with 0, 4, 10, 11 and 12 declared dependencies.
PackageJsons ==
  Manifests \cup
  { [dependencies |-> Undefined, devDependencies |-> Undefined],
    [dependencies |-> Some(1..6), devDependencies |-> Some(7..10)],
    [dependencies |-> Some({}), devDependencies |-> Some(1..12)] }

InitCalls ==
  /\ now = 0
  /\ env \in BOOLEAN
  /\ exited = << >>
  /\ started = [m \in AllSessions |-> FALSE]
  /\ opts = [m \in AllSessions |-> NoOptions]
  /\ infos = [m \in AllSessions |->
                [tmpMaxMemoryConsumption |-> 0, dateMaxMemoryConsumption |-> 0]]
  /\ timers = [m \in AllSessions |-> [active |-> FALSE, due |-> 0]]
  /\ db = DbInit
  /\ subjectLog = << >>
  /\ consoleLog = << >>
  /\ fc = [m \in AllSessions |-> [pc |-> "idle", probes |-> NoProbes, count |-> 0]]
  /\ deps = [m \in AllSessions |-> "idle"]
  /\ ticks = [m \in AllSessions |-> 0]
  /\ lastTick = Undefined
  /\ hist = [m \in AllSessions |-> HistInit]
  /\ directCall = NoCall

\* toMB(bytes)
CallToMB(bytes) ==
  /\ directCall = NoCall
  /\ directCall' = DirectCall("toMB", Some(bytes), Undefined, Some(toMB(bytes)))
  /\ UNCHANGED <<now, env, exited, started, opts, infos, timers, db, subjectLog,
                 consoleLog, fc, deps, ticks, lastTick, hist>>

\* checkBundleSizes({BUNDLE_MAX_SIZE, bundleMB})
CallCheckBundleSizes(BUNDLE_MAX_SIZE, bundleMB) ==
  /\ directCall = NoCall
  /\ LET out1 == checkBundleSizes(Out(subjectLog, consoleLog), env,
                                  BUNDLE_MAX_SIZE, bundleMB)
     IN  /\ subjectLog' = out1.subject
         /\ consoleLog' = out1.console
  /\ directCall' = DirectCall("checkBundleSizes", Some(bundleMB), BUNDLE_MAX_SIZE, Undefined)
  /\ UNCHANGED <<now, env, exited, started, opts, infos, timers, db, fc, deps,
                 ticks, lastTick, hist>>

\* checkNodeModulesSize({NODE_MODULES_MAX_SIZE, nodeModuleMB})
CallCheckNodeModulesSize(NODE_MODULES_MAX_SIZE, nodeModuleMB) ==
  /\ directCall = NoCall
  /\ LET out1 == checkNodeModulesSize(Out(subjectLog, consoleLog), env,
                                      NODE_MODULES_MAX_SIZE, nodeModuleMB)
     IN  /\ subjectLog' = out1.subject
         /\ consoleLog' = out1.console
  /\ directCall' = DirectCall("checkNodeModulesSize", Some(nodeModuleMB),
                        NODE_MODULES_MAX_SIZE, Undefined)
  /\ UNCHANGED <<now, env, exited, started, opts, infos, timers, db, fc, deps,
                 ticks, lastTick, hist>>

\* await checkNbOfNodeModulesDeps(NB_NODE_MODULES_MAX), the package.json of
\* the working directory being packageJson.
CallCheckNbOfNodeModulesDeps(NB_NODE_MODULES_MAX, packageJson) ==
  /\ directCall = NoCall
  /\ LET out == Out(subjectLog, consoleLog)
         out1 == IF checkNbStart(NB_NODE_MODULES_MAX) = "returned"
                 THEN out
                 ELSE checkNbAfterImport(out, env, NB_NODE_MODULES_MAX, packageJson)
     IN  /\ subjectLog' = out1.subject
         /\ consoleLog' = out1.console
  /\ directCall' = DirectCall("checkNbOfNodeModulesDeps", Some(packageJson),
                        NB_NODE_MODULES_MAX, Undefined)
  /\ UNCHANGED <<now, env, exited, started, opts, infos, timers, db, fc, deps,
                 ticks, lastTick, hist>>

NextCalls ==
  \/ \E bytes \in ToMBInputs : CallToMB(bytes)
  \/ \E limit \in CheckLimits : \E v \in CheckValues :
       CallCheckBundleSizes(MBLimit(limit), MB(v))
  \/ \E limit \in CheckLimits : \E v \in CheckValues :
       CallCheckNodeModulesSize(MBLimit(limit), MB(v))
  \/ \E limit \in CheckLimits : \E packageJson \in PackageJsons :
       CallCheckNbOfNodeModulesDeps(limit, packageJson)

SpecCalls == InitCalls /\ [][NextCalls]_vars

(***************************************************************************)
(* The session when the size probes terminate: a pending                   *)
(* fastFolderSizeAsync call eventually settles, and the event loop then    *)
(* runs the continuation of finalCallback.                                 *)
(***************************************************************************)
ProbeSettlesEventually(m) ==
  WF_vars(\E p \in Probes :
            \/ \E bytes \in ProbeBytes(p) : ProbeResolves(m, p, bytes)
            \/ ProbeRejects(m, p))

\* The samples of this specification: inside the warning band of the first
\* option set, and above every fatal limit.
LiveRssValues == {150000000, 1500000000}

SessionNextLive(m) ==
  \/ \E options \in OptionSets : monitoring(m, options)
  \/ \E rss \in LiveRssValues : Tick(m, rss)
  \/ finalCallback(m)
  \/ \E p \in Probes : \E bytes \in ProbeBytes(p) : ProbeResolves(m, p, bytes)
  \/ \E p \in Probes : ProbeRejects(m, p)
  \/ \E packageJson \in Manifests : ManifestImported(m, packageJson)
  \/ ManifestImportFails(m)

NextLive ==
  \/ \E m \in OneSession : SessionNextLive(m)
  \/ DebounceTimer
  \/ AdvanceTime

SpecLive ==
  Init /\ [][NextLive]_vars /\ \A m \in OneSession : ProbeSettlesEventually(m)

(***************************************************************************)
(* Two build sessions in one process: monitoring() is called twice (two    *)
(* plugin instances, or two builds run by one host).  The subject, the     *)
(* debounced warningMemoryLimit and process.env are the module's and the   *)
(* process's, so both sessions use the same ones.                          *)
(***************************************************************************)
\* One options object with console logging (the default), one without; the
\* warning thresholds differ, so that a warning names its monitor.  No
\* NB_NODE_MODULES_MAX: the dependency-count check returns at once.
TwoOptionSets ==
  { [MEMORY_WARNING_MAX_SIZE |-> Some(MB(100)), MEMORY_ERROR_MAX_SIZE |-> Some(MB(1000)),
     BUNDLE_MAX_SIZE |-> Undefined, NODE_MODULES_MAX_SIZE |-> Undefined,
     NB_NODE_MODULES_MAX |-> Undefined, INTERVAL_CHECK_MEMORY |-> Some(1250),
     LOG |-> Undefined],
    [MEMORY_WARNING_MAX_SIZE |-> Some(MB(50)), MEMORY_ERROR_MAX_SIZE |-> Some(MB(1000)),
     BUNDLE_MAX_SIZE |-> Undefined, NODE_MODULES_MAX_SIZE |-> Undefined,
     NB_NODE_MODULES_MAX |-> Undefined, INTERVAL_CHECK_MEMORY |-> Some(1250),
     LOG |-> Some(FALSE)] }

\* Samples below both warning thresholds, above both, above the fatal limit.
TwoRssValues == {4000, 150000000, 1500000000}
TwoProbeBytes(p) == IF p = "bundle" THEN {10000000} ELSE {900000000}

TickTwo(m, rss) == ticks[m] < MaxTicksTwo /\ Tick(m, rss)
finalCallbackTwo(m) == fc[m].count < MaxCompletionsTwo /\ finalCallback(m)

SessionNextTwo(m) ==
  \/ \E options \in TwoOptionSets : monitoring(m, options)
  \/ \E rss \in TwoRssValues : TickTwo(m, rss)
  \/ finalCallbackTwo(m)
  \/ \E p \in Probes : \E bytes \in TwoProbeBytes(p) : ProbeResolves(m, p, bytes)
  \/ \E p \in Probes : ProbeRejects(m, p)

NextTwo ==
  \/ \E m \in AllSessions : SessionNextTwo(m)
  \/ DebounceTimer
  \/ AdvanceTime

SpecTwo == Init /\ [][NextTwo]_vars

(***************************************************************************)
(* Properties.                                                             *)
(***************************************************************************)
Running(m) == started[m] /\ timers[m].active
Warnings == SelectSeq(subjectLog, LAMBDA e : e.type = "warning")
TickRan == lastTick' # lastTick
FatalText(memUsage, limit, at) ==
  Txt("ERROR_MEMORY_CONSUMPTION_TXT", Some(memUsage), Some(limit), Some(at))

\* C1: on every tick whose sample is strictly greater than
\* MEMORY_ERROR_MAX_SIZE, an error naming the sample and the fatal limit is
\* published (and written with console.error when logging is enabled) and
\* process.exit is invoked with code 1; process.exit is never invoked with
\* code 0.
C1_FatalPath ==
  /\ [][(TickRan /\ Val(lastTick').memUsage >
                      opts[Val(lastTick').m].MEMORY_ERROR_MAX_SIZE)
        => LET t == Val(lastTick')
               text == FatalText(t.memUsage, opts[t.m].MEMORY_ERROR_MAX_SIZE, t.at)
           IN  /\ subjectLog' = Append(subjectLog, [type |-> "error", text |-> text])
               /\ env => consoleLog' = Append(consoleLog,
                           [method |-> "error", color |-> "red", text |-> text])
               /\ exited' = Append(exited, 1)]_vars
  /\ [](\A i \in 1..Len(exited) : exited[i] # 0)

C1_Witness ==
  /\ IsDefined(lastTick)
  /\ Val(lastTick).memUsage > opts[Val(lastTick).m].MEMORY_ERROR_MAX_SIZE
  /\ exited = <<1>>
  /\ subjectLog[Len(subjectLog)].type = "error"

\* C2: process.exit is invoked only from a monitor tick whose sample is
\* strictly greater than MEMORY_ERROR_MAX_SIZE: no other step (a tick
\* sampling the fatal limit exactly, a warning, the misconfiguration notice,
\* a size or dependency-count breach) invokes it.
C2_OnlyAbort ==
  [][exited' # exited
     => /\ TickRan
        /\ Val(lastTick').memUsage > opts[Val(lastTick').m].MEMORY_ERROR_MAX_SIZE]_vars

\* A tick sampled exactly the fatal limit, a warning and a bundle-size error
\* were emitted, and the process is alive.
C2_Witness ==
  /\ Alive
  /\ IsDefined(lastTick)
  /\ Val(lastTick).memUsage = opts[Val(lastTick).m].MEMORY_ERROR_MAX_SIZE
  /\ Len(Warnings) > 0
  /\ \E i \in 1..Len(subjectLog) :
       subjectLog[i].type = "error" /\ subjectLog[i].text.txt = "ERROR_BUNDLE_SIZE_TXT"

\* C3: for a monitor whose every sample s so far satisfies
\* MEMORY_WARNING_MAX_SIZE < s <= MEMORY_ERROR_MAX_SIZE, once a tick has run
\* a warning carrying the sample of the first tick and the warning limit has
\* been published, and process.exit has not been invoked.
C3_WarningPath ==
  \A m \in AllSessions :
    (ticks[m] >= 1 /\ hist[m].allBand)
    => /\ \E i \in 1..Len(subjectLog) :
            /\ subjectLog[i].type = "warning"
            /\ subjectLog[i].text.txt = "WARNING_MEMORY_CONSUMPTION_TXT"
            /\ subjectLog[i].text.a = hist[m].first
            /\ subjectLog[i].text.b = Some(opts[m].MEMORY_WARNING_MAX_SIZE)
       /\ Alive

C3_Witness ==
  \E m \in AllSessions :
    /\ ticks[m] >= 2
    /\ hist[m].allBand
    /\ Len(Warnings) >= 1

WarningEntry(memUsage, limit, at) ==
  [type |-> "warning",
   text |-> Txt("WARNING_MEMORY_CONSUMPTION_TXT", Some(memUsage), Some(limit), Some(at))]

\* Every tick of session m so far sampled above the warning threshold and
\* not above the fatal one, at an interval shorter than the debounce wait.
Sustained(m) ==
  /\ ticks[m] >= 1
  /\ hist[m].allBand
  /\ opts[m].INTERVAL_CHECK_MEMORY < DEBOUNCE_WAIT

\* C4 as claimed: under sustained over-warning samples, once the first
\* 2500 ms window after the first warning has closed (and the monitor is
\* still ticking), the first and the last occurrence of that window have
\* both been emitted.
C4_Original ==
  \A m \in AllSessions :
    (Sustained(m) /\ Running(m) /\ now > Val(hist[m].firstAt) + DEBOUNCE_WAIT)
    => Len(Warnings) >= 2

\* C4 amended: under sustained over-warning samples exactly one warning, the
\* first occurrence, is emitted for as long as the ticks go on; the last
\* occurrence is emitted once, 2500 ms after the last tick, when the ticks
\* have stopped; never one notification per tick.
C4_Coalescing ==
  \A m \in AllSessions :
    Sustained(m) =>
      LET firstW == WarningEntry(Val(hist[m].first), opts[m].MEMORY_WARNING_MAX_SIZE,
                                 Val(hist[m].firstAt))
          lastW == WarningEntry(Val(lastTick).memUsage, opts[m].MEMORY_WARNING_MAX_SIZE,
                                Val(lastTick).at + DEBOUNCE_WAIT)
      IN  /\ (Running(m) \/ ticks[m] = 1) => Warnings = <<firstW>>
          /\ Warnings \in {<<firstW>>, <<firstW, lastW>>}
          /\ (~Running(m) /\ ticks[m] >= 2 /\ ~IsDefined(db.timerId))
               => Warnings = <<firstW, lastW>>

\* The burst outlasted the window, the monitor was stopped, and the trailing
\* warning has been emitted.
C4_Witness ==
  \E m \in AllSessions :
    /\ Sustained(m)
    /\ ~Running(m)
    /\ Val(lastTick).at > Val(hist[m].firstAt) + DEBOUNCE_WAIT
    /\ Len(Warnings) = 2

\* C5: the running maximum is 0 when the monitor starts and no step ever
\* decreases it.
C5_Ratchet ==
  [][\A m \in AllSessions :
       /\ infos'[m].tmpMaxMemoryConsumption >= infos[m].tmpMaxMemoryConsumption
       /\ (started'[m] /\ ~started[m]) => infos'[m].tmpMaxMemoryConsumption = 0]_vars

\* A tick sampled less than the maximum and the maximum is still there.
C5_Witness ==
  /\ Alive
  /\ IsDefined(lastTick)
  /\ Val(lastTick).memUsage < infos[Val(lastTick).m].tmpMaxMemoryConsumption

\* C6: while no sample has exceeded the fatal threshold the running maximum
\* is the largest sample seen (0 without ticks or with samples of 0 only)
\* and its date is the time of the first tick that sampled it (the start
\* time when no tick raised it); a step changes the maximum exactly when it
\* changes the date.
C6_MaxIsLargest ==
  /\ [](\A m \in AllSessions :
          (started[m] /\ hist[m].noFatal)
          => /\ infos[m].tmpMaxMemoryConsumption = hist[m].seenMax
             /\ infos[m].dateMaxMemoryConsumption = hist[m].seenMaxAt)
  /\ [][\A m \in AllSessions :
          started[m] =>
            ((infos'[m].tmpMaxMemoryConsumption # infos[m].tmpMaxMemoryConsumption)
             <=> (infos'[m].dateMaxMemoryConsumption # infos[m].dateMaxMemoryConsumption))]_vars

\* Three ticks or more, the maximum sampled neither by the first nor by the
\* last of them.
C6_Witness ==
  \E m \in AllSessions :
    /\ ticks[m] >= 3
    /\ hist[m].noFatal
    /\ infos[m].dateMaxMemoryConsumption > Val(hist[m].firstAt)
    /\ infos[m].dateMaxMemoryConsumption < Val(lastTick).at
    /\ Val(lastTick).memUsage < infos[m].tmpMaxMemoryConsumption

\* C7: the maximum and the date reported by the completion callback are the
\* values the handle holds at every later time, and no tick of a monitor
\* runs once its timer is cancelled.
C7_StopBeforeReport ==
  /\ [](\A m \in AllSessions :
          IsDefined(hist[m].reported)
          => /\ infos[m].tmpMaxMemoryConsumption = Val(hist[m].reported).max
             /\ infos[m].dateMaxMemoryConsumption = Val(hist[m].reported).date)
  /\ [][\A m \in AllSessions :
          (started[m] /\ ~timers[m].active) => ticks'[m] = ticks[m]]_vars

\* The maximum was reported, the size probes are pending, and the time at
\* which the cancelled timer was due has passed.
C7_Witness ==
  \E m \in AllSessions :
    /\ IsDefined(hist[m].reported)
    /\ Val(hist[m].reported).max > 0
    /\ fc[m].pc = "awaiting"
    /\ now > timers[m].due

\* C8: the timer of a monitor is off before its start and on from its start;
\* a stopped monitor stays stopped (no tick, maximum and date unchanged),
\* and a further invocation of the completion callback leaves the timer,
\* the maximum and the date as they are.
C8_StopTerminal ==
  [][\A m \in AllSessions :
       /\ ~started[m] => ~timers[m].active
       /\ (started'[m] /\ ~started[m]) => timers'[m].active
       /\ (started[m] /\ ~timers[m].active)
          => /\ ~timers'[m].active
             /\ ticks'[m] = ticks[m]
             /\ infos'[m] = infos[m]
       /\ (fc'[m].count > fc[m].count /\ fc[m].count >= 1)
          => /\ timers'[m] = timers[m]
             /\ infos'[m] = infos[m]]_vars

\* The completion callback ran twice on a monitor that had sampled.
C8_Witness ==
  \E m \in AllSessions :
    /\ fc[m].count >= 2
    /\ ~timers[m].active
    /\ infos[m].tmpMaxMemoryConsumption > 0
    /\ Val(hist[m].reported).max = infos[m].tmpMaxMemoryConsumption

SizeTemplates == {"ERROR_BUNDLE_SIZE_TXT", "INFO_BUNDLE_SIZE_TXT",
                  "ERROR_NODE_MODULE_SIZE_TXT", "INFO_NODE_MODULE_SIZE_TXT"}
SizeErrorTemplates == {"ERROR_BUNDLE_SIZE_TXT", "ERROR_NODE_MODULE_SIZE_TXT"}

\* C9 as claimed: every outcome of a size check with a configured limit is
\* an error naming both values when measured > limit, and informational
\* when measured <= limit.
C9_ConfiguredLimit ==
  \A i \in 1..Len(subjectLog) :
    LET e == subjectLog[i]
    IN  (e.text.txt \in SizeTemplates /\ IsDefined(e.text.b))
        => IF Val(e.text.a) > Val(e.text.b)
           THEN e.type = "error" /\ e.text.txt \in SizeErrorTemplates
           ELSE e.type = "info" /\ e.text.txt \notin SizeErrorTemplates

\* The completion sequence of session m finishes in this step.
Completes(m) == fc[m].pc = "awaiting" /\ fc'[m].pc = "done"

\* C10: when the completion sequence finishes, a size check whose limit is
\* unset publishes an informational outcome carrying the measured value,
\* whatever that value is.
C10_UnsetLimit ==
  [][\A m \in AllSessions :
       Completes(m) =>
         LET n == Len(subjectLog') IN
         /\ n = Len(subjectLog) + 2
         /\ ~IsDefined(opts[m].NODE_MODULES_MAX_SIZE)
            => subjectLog'[n - 1] =
                 [type |-> "info",
                  text |-> Txt("INFO_NODE_MODULE_SIZE_TXT",
                               Some(toMB(fc'[m].probes.nm.bytes)), Undefined, Undefined)]
         /\ ~IsDefined(opts[m].BUNDLE_MAX_SIZE)
            => subjectLog'[n] =
                 [type |-> "info",
                  text |-> Txt("INFO_BUNDLE_SIZE_TXT",
                               Some(toMB(fc'[m].probes.bundle.bytes)), Undefined, Undefined)]]_vars

\* A session without size limits has completed and published its two
\* informational size outcomes.
C10_Witness ==
  \E m \in AllSessions :
    /\ fc[m].pc = "done"
    /\ ~IsDefined(opts[m].BUNDLE_MAX_SIZE)
    /\ ~IsDefined(opts[m].NODE_MODULES_MAX_SIZE)
    /\ subjectLog[Len(subjectLog)].type = "info"
    /\ subjectLog[Len(subjectLog)].text.txt = "INFO_BUNDLE_SIZE_TXT"
    /\ subjectLog[Len(subjectLog)].text.b = Undefined
    /\ Val(subjectLog[Len(subjectLog)].text.a) > 0

\* The outcome a threshold check publishes.
Outcome(type, template, measured, limit) ==
  [type |-> type, text |-> Txt(template, Some(measured), limit, Undefined)]

\* C11 as claimed: a call of checkNbOfNodeModulesDeps with a configured
\* NB_NODE_MODULES_MAX counts the runtime plus the development dependencies
\* of the manifest (a missing mapping counts 0) and publishes one outcome
\* stating count and limit: an error exactly when count > limit, an
\* informational outcome otherwise.
C11_DependencyCount ==
  (directCall.fn = "checkNbOfNodeModulesDeps" /\ IsDefined(directCall.limit))
    => LET packageJson == Val(directCall.measured)
           count == Cardinality(OrDefault(packageJson.dependencies, {}))
                      + Cardinality(OrDefault(packageJson.devDependencies, {}))
       IN  subjectLog =
             << IF count > Val(directCall.limit)
                THEN Outcome("error", "ERROR_NODE_MODULE_NB_TXT", count, directCall.limit)
                ELSE Outcome("info", "INFO_NODE_MODULE_NB_TXT", count, directCall.limit) >>

\* The measured quantity of a direct call of one of the three checks.
Measured(c) ==
  IF c.fn = "checkNbOfNodeModulesDeps"
  THEN Cardinality(OrDefault(Val(c.measured).dependencies, {}))
         + Cardinality(OrDefault(Val(c.measured).devDependencies, {}))
  ELSE Val(c.measured)

ThresholdChecks ==
  {"checkBundleSizes", "checkNodeModulesSize", "checkNbOfNodeModulesDeps"}

\* C12 as claimed: for every pair (measured, limit), the limit unset
\* included, each of the three checks publishes one outcome, of the same
\* classification: an error when the limit is set and measured > limit, an
\* informational outcome otherwise.
C12_SameSemantics ==
  directCall.fn \in ThresholdChecks
    => /\ Len(subjectLog) = 1
       /\ subjectLog[1].type =
            IF IsDefined(directCall.limit)
               /\ Measured(directCall) > Val(directCall.limit)
            THEN "error" ELSE "info"

\* The outcomes of the two size checks published so far.
SizeOutcomes == SelectSeq(subjectLog, LAMBDA e : e.text.txt \in SizeTemplates)
ReportEntry(m) ==
  [type |-> "info",
   text |-> Txt("MEMORY_CONSUMPTION_TXT", Some(Val(hist[m].reported).max),
                Undefined, Some(Val(hist[m].reported).date))]

\* C13: the two size probes are issued together, in the step that has
\* reported the maximum, and resolve in any order; a step publishes size
\* outcomes only when it resolves the second of the two probes, both being
\* resolved after it, and then publishes the node_modules outcome and the
\* bundle outcome computed from the sizes the two probes resolved with.
C13_BothProbesFirst ==
  /\ [][\A m \in AllSessions :
          fc'[m].count # fc[m].count
            => /\ \A p \in Probes : fc'[m].probes[p].st = "pending"
               /\ subjectLog' = Append(subjectLog, ReportEntry(m)')]_vars
  /\ [][SizeOutcomes' # SizeOutcomes
          => \E m \in AllSessions : \E p \in Probes :
               /\ fc[m].probes[p].st = "pending"
               /\ fc[m].probes[OtherProbe(p)].st = "resolved"
               /\ \A q \in Probes : fc'[m].probes[q].st = "resolved"
               /\ Len(SizeOutcomes') = Len(SizeOutcomes) + 2
               /\ LET n == Len(SizeOutcomes')
                  IN  /\ SizeOutcomes'[n - 1].text.a
                           = Some(toMB(fc'[m].probes.nm.bytes))
                      /\ SizeOutcomes'[n - 1].text.txt
                           \in {"ERROR_NODE_MODULE_SIZE_TXT", "INFO_NODE_MODULE_SIZE_TXT"}
                      /\ SizeOutcomes'[n].text.a
                           = Some(toMB(fc'[m].probes.bundle.bytes))
                      /\ SizeOutcomes'[n].text.txt
                           \in {"ERROR_BUNDLE_SIZE_TXT", "INFO_BUNDLE_SIZE_TXT"}]_vars

\* The node_modules probe, issued second, has resolved first: the bundle
\* probe is pending and nothing follows the report of the maximum.
C13_Witness ==
  \E m \in AllSessions :
    /\ fc[m].pc = "awaiting"
    /\ fc[m].probes.nm.st = "resolved"
    /\ fc[m].probes.bundle.st = "pending"
    /\ subjectLog[Len(subjectLog)] = ReportEntry(m)
    /\ SizeOutcomes = << >>

\* A probe of the current finalCallback invocation of session m has failed.
ProbeFailed(m) == \E p \in Probes : fc[m].probes[p].st = "rejected"

\* C14: once one of the two probes has failed, the finalCallback invocation
\* has failed as a whole (as soon as the failure happens), the interval
\* timer is cleared and the maximum has been reported; no step of that
\* invocation publishes a size outcome, whether the other probe resolves
\* before or after the failure.
C14_FailureNotIsolated ==
  /\ [](\A m \in AllSessions :
          ProbeFailed(m) => /\ fc[m].pc = "rejected"
                            /\ ~timers[m].active
                            /\ IsDefined(hist[m].reported))
  /\ [][\A m \in AllSessions :
          (ProbeFailed(m)' /\ fc'[m].count = fc[m].count)
            => SizeOutcomes' = SizeOutcomes]_vars

\* The bundle probe has failed and the node_modules probe has resolved with
\* a size above its limit: no size outcome has been published.
C14_Witness ==
  \E m \in AllSessions :
    /\ fc[m].probes.bundle.st = "rejected"
    /\ fc[m].probes.nm.st = "resolved"
    /\ LimitExceeded(opts[m].NODE_MODULES_MAX_SIZE, toMB(fc[m].probes.nm.bytes))
    /\ SizeOutcomes = << >>
    /\ hist[m].reported # Undefined

\* What the console shows for a published outcome e when logging is enabled:
\* errors go to console.error in red, warnings to console.log on yellow,
\* informational outcomes to console.log in green, with the published text.
ConsoleOf(e) ==
  [method |-> IF e.type = "error" THEN "error" ELSE "log",
   color |-> CASE e.type = "error" -> "red"
               [] e.type = "warning" -> "bgYellow"
               [] e.type = "info" -> "green",
   text |-> e.text]

\* The number of outcomes the subject has published.
Published == Len(subjectLog)
LastPublished == subjectLog[Len(subjectLog)]

\* C15: the console output is, entry by entry, the published outcomes with
\* the same classification and text when logging is enabled, and empty when
\* it is not; and every operation that produces an outcome publishes it,
\* logging enabled or not: the misconfiguration notice, the fatal error, a
\* warning the debounce lets through, the report of the maximum, the two
\* size outcomes and the dependency-count outcome.
C15_Relay ==
  /\ [](consoleLog = [i \in 1..(IF env THEN Len(subjectLog) ELSE 0)
                        |-> ConsoleOf(subjectLog[i])])
  /\ [][\A m \in AllSessions :
          /\ (started'[m] /\ ~started[m]
                /\ opts'[m].MEMORY_WARNING_MAX_SIZE > opts'[m].MEMORY_ERROR_MAX_SIZE)
               => /\ Published' = Published + 1
                  /\ LastPublished'.type = "error"
                  /\ LastPublished'.text.txt = "WARNING_ABOVE_ERROR_TXT"
          /\ exited' # exited
               => /\ Published' = Published + 1
                  /\ LastPublished'.type = "error"
                  /\ LastPublished'.text.txt = "ERROR_MEMORY_CONSUMPTION_TXT"
          /\ db'.lastInvokeTime # db.lastInvokeTime
               => /\ Published' = Published + 1
                  /\ LastPublished'.type = "warning"
                  /\ LastPublished'.text.txt = "WARNING_MEMORY_CONSUMPTION_TXT"
          /\ fc'[m].count # fc[m].count
               => /\ Published' = Published + 1
                  /\ LastPublished' = ReportEntry(m)'
          /\ Completes(m)
               => /\ Published' = Published + 2
                  /\ LastPublished'.text.txt \in SizeTemplates
                  /\ subjectLog'[Published + 1].text.txt \in SizeTemplates
          /\ (deps[m] = "importing" /\ deps'[m] = "done")
               => /\ Published' = Published + 1
                  /\ LastPublished'.text.txt
                       \in {"ERROR_NODE_MODULE_NB_TXT", "INFO_NODE_MODULE_NB_TXT"}]_vars

\* Logging is disabled (LOG: false and the environment flag not set): the
\* misconfiguration notice, the report of the maximum, the size outcomes and
\* the dependency-count outcome have been published, the console is empty.
C15_Witness ==
  /\ ~env
  /\ consoleLog = << >>
  /\ \E m \in AllSessions : fc[m].pc = "done" /\ deps[m] = "done"
  /\ {subjectLog[i].type : i \in 1..Len(subjectLog)} = {"error", "info"}
  /\ Len(subjectLog) >= 5

Misconfigured(m) ==
  started[m] /\ opts[m].MEMORY_WARNING_MAX_SIZE > opts[m].MEMORY_ERROR_MAX_SIZE
MisconfigurationNotice ==
  [type |-> "error",
   text |-> Txt("WARNING_ABOVE_ERROR_TXT", Undefined, Undefined, Undefined)]

\* C16: after monitoring() with MEMORY_WARNING_MAX_SIZE above
\* MEMORY_ERROR_MAX_SIZE the first published outcome is the error-classified
\* misconfiguration notice; process.exit has not been invoked unless a tick
\* sampled above the fatal limit; the interval timer runs until completion
\* clears it; the dependency-count check has been started; and a completion
\* callback that has finished has reported the maximum and published the two
\* size outcomes.  With the thresholds in order no notice is published.
C16_MisconfigurationNonFatal ==
  \A m \in OneSession :
    /\ Misconfigured(m)
         => /\ Len(subjectLog) >= 1
            /\ subjectLog[1] = MisconfigurationNotice
            /\ Alive \/ ~hist[m].noFatal
            /\ timers[m].active \/ fc[m].count > 0
            /\ deps[m] # "idle"
            /\ Truthy(opts[m].NB_NODE_MODULES_MAX) => deps[m] # "returned"
            /\ fc[m].pc = "done"
                 => /\ ~timers[m].active
                    /\ IsDefined(hist[m].reported)
                    /\ Len(SizeOutcomes) >= 2
    /\ ~Misconfigured(m)
         => \A i \in 1..Len(subjectLog) : subjectLog[i] # MisconfigurationNotice

\* A misconfigured session has ticked without a fatal sample, its
\* dependency-count check has published its outcome and its completion
\* callback has finished with the two size outcomes; the process is alive.
C16_Witness ==
  \E m \in OneSession :
    /\ Misconfigured(m)
    /\ Alive
    /\ ticks[m] >= 2
    /\ deps[m] = "done"
    /\ fc[m].pc = "done"
    /\ Len(SizeOutcomes) = 2
    /\ subjectLog[1] = MisconfigurationNotice

\* bytes / 1,000,000 rounded to two decimals, in hundredths: to the nearest
\* hundredth, a value halfway going up (RoundHalfUp) or to the even
\* hundredth (RoundHalfEven).
RoundHalfUp(bytes) == (bytes + 5000) \div 10000
RoundHalfEven(bytes) ==
  LET q == bytes \div 10000
      r == bytes % 10000
  IN  IF r > 5000 \/ (r = 5000 /\ q % 2 = 1) THEN q + 1 ELSE q

\* C17 as claimed: for every non-negative byte count toMB returns
\* bytes / 1,000,000 rounded to two decimals (whichever of the two usual
\* conventions decides a value halfway), never a negative number; 20000
\* bytes give 0.02 and 12345678 bytes give 12.35.
C17_Rounding ==
  directCall.fn = "toMB"
    => LET bytes == Val(directCall.measured)
           result == Val(directCall.result)
       IN  /\ result \in {RoundHalfUp(bytes), RoundHalfEven(bytes)}
           /\ result >= 0
           /\ bytes = 20000 => result = 2
           /\ bytes = 12345678 => result = 1235

\* C18: when process.exit has been invoked, the last tick sampled above the
\* fatal limit and the last outcome published is its fatal error; that tick
\* did not call the warning notifier (no call of the debounced function at
\* its time, no warning and no pending call carrying its sample) and did not
\* raise the running maximum to its sample.
C18_FatalPrecedence ==
  exited # << >>
    => LET t == Val(lastTick)
           o == opts[t.m]
       IN  /\ t.memUsage > o.MEMORY_ERROR_MAX_SIZE
           /\ LastPublished =
                [type |-> "error",
                 text |-> FatalText(t.memUsage, o.MEMORY_ERROR_MAX_SIZE, t.at)]
           /\ db.lastCallTime # Some(t.at)
           /\ IsDefined(db.lastArgs) => Val(db.lastArgs).memUsage # t.memUsage
           /\ \A i \in 1..Len(Warnings) : Warnings[i].text.a # Some(t.memUsage)
           /\ infos[t.m].tmpMaxMemoryConsumption < t.memUsage

\* The thresholds are in order, an earlier tick has produced a warning, and
\* a later tick has sampled above both thresholds: the process has exited.
C18_Witness ==
  /\ exited # << >>
  /\ Warnings # << >>
  /\ LET t == Val(lastTick)
         o == opts[t.m]
     IN  /\ o.MEMORY_WARNING_MAX_SIZE <= o.MEMORY_ERROR_MAX_SIZE
         /\ t.memUsage > o.MEMORY_WARNING_MAX_SIZE
         /\ t.memUsage > o.MEMORY_ERROR_MAX_SIZE
         /\ infos[t.m].tmpMaxMemoryConsumption > 0

\* C19: every warning published carries the warning threshold of the session
\* and a sample strictly above it that a tick, at the time of the warning or
\* before, sampled; and as long as every sample is at most the warning
\* threshold (equality included) no warning is published.
C19_NoSpuriousWarning ==
  \A m \in OneSession :
    /\ \A i \in 1..Len(Warnings) :
         LET w == Warnings[i].text
         IN  /\ w.txt = "WARNING_MEMORY_CONSUMPTION_TXT"
             /\ w.b = Some(opts[m].MEMORY_WARNING_MAX_SIZE)
             /\ Val(w.a) > Val(w.b)
             /\ \E k \in 1..Len(hist[m].over) :
                  /\ hist[m].over[k].memUsage = Val(w.a)
                  /\ hist[m].over[k].at <= Val(w.at)
    /\ (started[m] /\ hist[m].seenMax <= opts[m].MEMORY_WARNING_MAX_SIZE)
         => Warnings = << >>

\* A trailing warning: it was published after the tick that sampled the
\* value it carries, the later ticks having sampled at most the threshold.
C19_Witness ==
  \E m \in OneSession :
    /\ Len(Warnings) = 2
    /\ LET w == Warnings[2].text
           n == Len(hist[m].over)
       IN  /\ n >= 2
           /\ hist[m].over[n].memUsage = Val(w.a)
           /\ hist[m].over[n].at < Val(w.at)
           /\ Val(lastTick).memUsage <= opts[m].MEMORY_WARNING_MAX_SIZE

\* The over-warning tick k of session m is a burst of its own: every other
\* over-warning tick of the session is more than the debounce wait away.
Isolated(m, k) ==
  \A j \in 1..Len(hist[m].over) :
    j # k => \/ hist[m].over[j].at - hist[m].over[k].at > DEBOUNCE_WAIT
             \/ hist[m].over[k].at - hist[m].over[j].at > DEBOUNCE_WAIT

\* The warnings published from time t to the end of the debounce wait.
WarningsInWindow(t) ==
  SelectSeq(Warnings, LAMBDA e : Val(e.text.at) >= t
                                 /\ Val(e.text.at) <= t + DEBOUNCE_WAIT)

\* C20: the number of warnings published is at most the number of ticks that
\* sampled above the warning threshold; and for a tick that sampled above
\* the warning threshold (not above the fatal one) with no other such tick
\* within 2500 ms before or after it, the warnings published from that tick
\* to the end of its window are exactly one, the warning with its sample
\* published at its time.
C20_NoAmplification ==
  \A m \in OneSession :
    /\ Len(Warnings) <= Len(hist[m].over)
    /\ \A k \in 1..Len(hist[m].over) :
         LET t == hist[m].over[k]
         IN  (Isolated(m, k) /\ t.memUsage <= opts[m].MEMORY_ERROR_MAX_SIZE)
               => WarningsInWindow(t.at) =
                    << WarningEntry(t.memUsage, opts[m].MEMORY_WARNING_MAX_SIZE, t.at) >>

\* Two bursts of a single tick each, 3750 ms apart, the window of the second
\* one closed: two warnings, one per tick.
C20_Witness ==
  \E m \in OneSession :
    /\ Len(hist[m].over) = 2
    /\ Isolated(m, 1)
    /\ Isolated(m, 2)
    /\ now >= hist[m].over[2].at + DEBOUNCE_WAIT
    /\ db.timerId = Undefined
    /\ Len(Warnings) = 2
    /\ hist[m].noFatal

\* Over-warning tick k of session m starts a burst: it is the first one, or
\* the one before it is more than the debounce wait earlier.
BurstStart(m, k) ==
  k = 1 \/ hist[m].over[k].at - hist[m].over[k - 1].at > DEBOUNCE_WAIT

\* Over-warning tick k of session m ends a burst of at least two ticks: the
\* one before it is less than the debounce wait earlier and the next one,
\* if any, more than the debounce wait later.
BurstEnd(m, k) ==
  /\ k > 1
  /\ hist[m].over[k].at - hist[m].over[k - 1].at < DEBOUNCE_WAIT
  /\ k < Len(hist[m].over)
       => hist[m].over[k + 1].at - hist[m].over[k].at > DEBOUNCE_WAIT

\* The debounce timer that was due at time t has run.
WindowClosed(t) == now > t \/ (now = t /\ db.timerId = Undefined)

\* The warnings published after time t, up to the end of the debounce wait.
WarningsAfter(t) ==
  SelectSeq(Warnings, LAMBDA e : Val(e.text.at) > t
                                 /\ Val(e.text.at) <= t + DEBOUNCE_WAIT)

\* C21: the tick that starts a burst of over-warning ticks has its sample
\* published as a warning at its time (the leading notification); and once
\* the window of a burst of two or more ticks has closed, 2500 ms after its
\* last tick, exactly one warning has been published after that tick (the
\* trailing notification), at the close of the window, and it carries the
\* sample of that last tick.
C21_FirstAndLast ==
  \A m \in OneSession : \A k \in 1..Len(hist[m].over) :
    LET t == hist[m].over[k]
        W == opts[m].MEMORY_WARNING_MAX_SIZE
    IN  /\ (BurstStart(m, k) /\ t.memUsage <= opts[m].MEMORY_ERROR_MAX_SIZE)
             => \E i \in 1..Len(Warnings) :
                  Warnings[i] = WarningEntry(t.memUsage, W, t.at)
        /\ (BurstEnd(m, k) /\ Alive /\ WindowClosed(t.at + DEBOUNCE_WAIT))
             => WarningsAfter(t.at) =
                  << WarningEntry(t.memUsage, W, t.at + DEBOUNCE_WAIT) >>

\* A burst of three over-warning ticks whose last sample differs from the
\* first and from the intermediate one: a leading warning with the first
\* sample and a trailing warning with the last.
C21_Witness ==
  \E m \in OneSession :
    /\ Len(hist[m].over) = 3
    /\ BurstStart(m, 1) /\ ~BurstStart(m, 2) /\ BurstEnd(m, 3)
    /\ hist[m].over[3].memUsage # hist[m].over[1].memUsage
    /\ hist[m].over[3].memUsage # hist[m].over[2].memUsage
    /\ Len(Warnings) = 2
    /\ Warnings[1].text.a = Some(hist[m].over[1].memUsage)
    /\ Warnings[2].text.a = Some(hist[m].over[3].memUsage)

NodeModulesOutcome(e) ==
  e.text.txt \in {"ERROR_NODE_MODULE_SIZE_TXT", "INFO_NODE_MODULE_SIZE_TXT"}
BundleOutcome(e) ==
  e.text.txt \in {"ERROR_BUNDLE_SIZE_TXT", "INFO_BUNDLE_SIZE_TXT"}

\* C22: when the pending probes of a finalCallback invocation settle, the
\* invocation finishes unless a probe failed; the step that finishes it
\* publishes, after the report of the maximum of that invocation and with
\* no size outcome in between, exactly the node_modules outcome and then
\* the bundle outcome; and no other step publishes a size outcome, so that
\* none is published while a probe is unresolved.
C22_CompletionTerminates ==
  /\ \A m \in OneSession :
       (fc[m].pc = "awaiting") ~> (fc[m].pc = "done" \/ ProbeFailed(m))
  /\ [][\A m \in OneSession :
          Completes(m)
            => /\ Len(subjectLog') = Len(subjectLog) + 2
               /\ NodeModulesOutcome(subjectLog'[Len(subjectLog) + 1])
               /\ BundleOutcome(subjectLog'[Len(subjectLog) + 2])
               /\ \E i \in 1..Len(subjectLog) :
                    /\ subjectLog[i] = ReportEntry(m)
                    /\ \A j \in i..Len(subjectLog) :
                         subjectLog[j].text.txt \notin SizeTemplates]_vars
  /\ [][SizeOutcomes' # SizeOutcomes
          => \E m \in OneSession :
               Completes(m) /\ \A p \in Probes : fc'[m].probes[p].st = "resolved"]_vars

\* A second completion has finished: each one published its report, then
\* its node_modules outcome, then its bundle outcome.
C22_Witness ==
  \E m \in OneSession :
    /\ fc[m].pc = "done"
    /\ fc[m].count = 2
    /\ Len(SizeOutcomes) = 4
    /\ LET n == Len(subjectLog)
       IN  /\ BundleOutcome(subjectLog[n])
           /\ NodeModulesOutcome(subjectLog[n - 1])
           /\ subjectLog[n - 2] = ReportEntry(m)

\* C23 as claimed: no warning is published after the completion callback
\* has stopped the monitor, that is, no warning follows a report of the
\* maximum in the published sequence.
C23_NoWarningAfterStop ==
  \A i \in 1..Len(subjectLog) : \A j \in 1..Len(subjectLog) :
    (i < j /\ subjectLog[i].text.txt = "MEMORY_CONSUMPTION_TXT")
      => subjectLog[j].type # "warning"

\* C24: the running maximum of a session whose fatal limit is not negative
\* is at most that limit in every reachable state, and so is the maximum a
\* completion callback has reported.
C24_MaxBelowFatal ==
  \A m \in OneSession :
    (started[m] /\ opts[m].MEMORY_ERROR_MAX_SIZE >= 0)
      => /\ infos[m].tmpMaxMemoryConsumption <= opts[m].MEMORY_ERROR_MAX_SIZE
         /\ IsDefined(hist[m].reported)
              => Val(hist[m].reported).max <= opts[m].MEMORY_ERROR_MAX_SIZE

\* A tick has sampled exactly the fatal limit: the process is alive and the
\* completion callback has reported a maximum equal to the limit.
C24_Witness ==
  \E m \in OneSession :
    /\ Alive
    /\ IsDefined(hist[m].reported)
    /\ Val(hist[m].reported).max = opts[m].MEMORY_ERROR_MAX_SIZE
    /\ infos[m].tmpMaxMemoryConsumption = opts[m].MEMORY_ERROR_MAX_SIZE
    /\ opts[m].MEMORY_WARNING_MAX_SIZE < opts[m].MEMORY_ERROR_MAX_SIZE

\* Session m was created with console logging (LOG true, the default).
Logs(m) == started[m] /\ opts[m].LOG

\* C25 as claimed: only the sessions created with LOG true write to the
\* console, and they write every outcome.  So every warning on the console
\* names the threshold of a logging session, a fatal error on the console
\* is the one of a tick of a logging session, every report of a maximum and
\* every size outcome on the console is the one of a logging session; and
\* the report of a logging session is on the console.
C25_LogPerSession ==
  /\ \A i \in 1..Len(consoleLog) :
       LET e == consoleLog[i].text
       IN  /\ e.txt = "WARNING_MEMORY_CONSUMPTION_TXT"
                => \E m \in AllSessions :
                     Logs(m) /\ e.b = Some(opts[m].MEMORY_WARNING_MAX_SIZE)
           /\ e.txt = "ERROR_MEMORY_CONSUMPTION_TXT"
                => Logs(Val(lastTick).m)
           /\ e.txt = "MEMORY_CONSUMPTION_TXT"
                => \E m \in AllSessions :
                     /\ Logs(m)
                     /\ IsDefined(hist[m].reported)
                     /\ e = ReportEntry(m).text
           /\ e.txt \in SizeTemplates
                => \E m \in AllSessions : Logs(m) /\ fc[m].pc = "done"
  /\ \A m \in AllSessions :
       (Logs(m) /\ IsDefined(hist[m].reported))
         => \E i \in 1..Len(consoleLog) : consoleLog[i] = ConsoleOf(ReportEntry(m))

\* C26 as claimed: warning coalescing is per monitor.  For each of the two
\* monitors of the process, the first tick of that monitor that sampled
\* above its warning threshold (and not above its fatal one) has its sample
\* published as a warning naming that monitor's threshold, at the time of
\* the tick, whatever the other monitor published in the 2500 ms before.
C26_PerMonitorCoalescing ==
  \A m \in AllSessions :
    (/\ hist[m].over # << >>
     /\ hist[m].over[1].memUsage <= opts[m].MEMORY_ERROR_MAX_SIZE)
    => \E i \in 1..Len(Warnings) :
         Warnings[i] = WarningEntry(hist[m].over[1].memUsage,
                                    opts[m].MEMORY_WARNING_MAX_SIZE,
                                    hist[m].over[1].at)

====
